---------------------------- MODULE Spec2Model ----------------------------
(***************************************************************************)
(* Model of store.py: save(todo_list) writes the JSON text of a list of    *)
(* task records to the file "todo.json"; fetch() reads the file back and   *)
(* returns the decoded value, or [] when opening or decoding fails.        *)
(*                                                                         *)
(* Text is a sequence of one-character strings.  Python objects are        *)
(* records with the same four fields, so that any two are comparable:     *)
(*   kind  "list" | "dict" | "str" | "int" | "bool" | "None" | "set"       *)
(*   n     the number of an int; 1 or 0 for True or False                  *)
(*   s     the characters of a str                                         *)
(*   items the elements of a list; the keys and values of a dict,          *)
(*         alternating, in insertion order                                 *)
(***************************************************************************)
EXTENDS Integers, Sequences, FiniteSets, TLC

\* Longest task list passed to save.
MaxLen == 2
\* Longest task list passed to a save that overlaps a fetch.
MaxRaceLen == 1
\* Most characters of a chunk that a failing write still puts in the file.
MaxCut == 1

-----------------------------------------------------------------------------
(* Python objects *)

PyStr(chars) == [kind |-> "str", n |-> 0, s |-> chars, items |-> <<>>]
PyInt(k) == [kind |-> "int", n |-> k, s |-> <<>>, items |-> <<>>]
PyNone == [kind |-> "None", n |-> 0, s |-> <<>>, items |-> <<>>]
PyBool(b) == [kind |-> "bool", n |-> IF b THEN 1 ELSE 0, s |-> <<>>, items |-> <<>>]
PyList(xs) == [kind |-> "list", n |-> 0, s |-> <<>>, items |-> xs]
PyDict(kvs) == [kind |-> "dict", n |-> 0, s |-> <<>>, items |-> kvs]
\* A value json cannot serialize (a set, a datetime, ...).
PySet == [kind |-> "set", n |-> 0, s |-> <<>>, items |-> <<>>]

\* The empty list, fetch's fallback result.
EmptyList == PyList(<<>>)

\* item: {'id': int, 'content': str, 'status': str}
Item(id, content, status) ==
    [kind |-> "dict", n |-> 0, s |-> <<>>,
     items |-> << PyStr(<<"i", "d">>), id,
                  PyStr(<<"c", "o", "n", "t", "e", "n", "t">>), content,
                  PyStr(<<"s", "t", "a", "t", "u", "s">>), status >>]

-----------------------------------------------------------------------------
(* json.dump: the chunks the encoder yields, in order *)

Digits == <<"0", "1", "2", "3", "4", "5", "6", "7", "8", "9">>

\* int.__repr__ of a non-negative number
RECURSIVE NatRepr(_)
NatRepr(k) ==
    IF k < 10 THEN << Digits[k + 1] >>
    ELSE NatRepr(k \div 10) \o << Digits[(k % 10) + 1] >>

\* int.__repr__
IntRepr(k) == IF k < 0 THEN <<"-">> \o NatRepr(0 - k) ELSE NatRepr(k)

\* Variant: an encoder that escapes nothing.
EscapeCharNone(c) == << c >>

\* One character of a str as it appears between the quotes
\* (ESCAPE_DCT, for the ASCII characters the model uses).
EscapeChar(c) ==
    CASE c = "\"" -> <<"\\", "\"">>
      [] c = "\\" -> <<"\\", "\\">>
      [] c = "\n" -> <<"\\", "n">>
      [] c = "\t" -> <<"\\", "t">>
      [] c = "\r" -> <<"\\", "r">>
      [] OTHER -> << c >>

RECURSIVE EscapeAll(_)
EscapeAll(chars) ==
    IF chars = <<>> THEN <<>>
    ELSE EscapeChar(Head(chars)) \o EscapeAll(Tail(chars))

\* encode_basestring_ascii: the quoted, escaped text of a str
EncodeStr(chars) == <<"\"">> \o EscapeAll(chars) \o <<"\"">>

ItemSeparator == <<",", " ">>
KeySeparator == <<":", " ">>

\* A generator's outcome: the chunks it yields, and whether it then raises
\* TypeError instead of finishing.
Yielded(chunks) == [chunks |-> chunks, raised |-> FALSE]
Raised(chunks) == [chunks |-> chunks, raised |-> TRUE]

IsScalar(o) == o.kind \in {"str", "int", "bool", "None"}

\* The text of a str, None, True, False or an int
ScalarText(o) ==
    CASE o.kind = "str" -> EncodeStr(o.s)
      [] o.kind = "None" -> <<"n", "u", "l", "l">>
      [] o.kind = "bool" ->
           IF o.n = 1 THEN <<"t", "r", "u", "e">>
           ELSE <<"f", "a", "l", "s", "e">>
      [] OTHER -> IntRepr(o.n)

RECURSIVE IterEncode(_)
RECURSIVE IterEncodeList(_, _, _)
RECURSIVE IterEncodeDict(_, _, _)

\* _iterencode_list from element i on; done holds the chunks yielded so far.
\* A scalar element is yielded in one chunk with the "[" or ", " before it.
IterEncodeList(xs, i, done) ==
    IF i > Len(xs) THEN Yielded(Append(done, <<"]">>))
    ELSE LET buf == IF i = 1 THEN <<"[">> ELSE ItemSeparator
             x == xs[i]
         IN IF IsScalar(x)
            THEN IterEncodeList(xs, i + 1, Append(done, buf \o ScalarText(x)))
            ELSE LET sub == IterEncode(x)
                     now == Append(done, buf) \o sub.chunks
                 IN IF sub.raised THEN Raised(now)
                    ELSE IterEncodeList(xs, i + 1, now)

\* _iterencode_dict from the pair at position i (of kvs) on; keys are str.
IterEncodeDict(kvs, i, done) ==
    IF i > Len(kvs) THEN Yielded(Append(done, <<"}">>))
    ELSE LET sep == IF i = 1 THEN <<>> ELSE << ItemSeparator >>
             key == << EncodeStr(kvs[i].s), KeySeparator >>
             v == kvs[i + 1]
             sub == IF IsScalar(v) THEN Yielded(<< ScalarText(v) >>)
                    ELSE IterEncode(v)
             now == done \o sep \o key \o sub.chunks
         IN IF sub.raised THEN Raised(now)
            ELSE IterEncodeDict(kvs, i + 2, now)

\* _iterencode: the chunks of any object
IterEncode(o) ==
    CASE IsScalar(o) -> Yielded(<< ScalarText(o) >>)
      [] o.kind = "list" ->
           IF o.items = <<>> THEN Yielded(<< <<"[", "]">> >>)
           ELSE IterEncodeList(o.items, 1, <<>>)
      [] o.kind = "dict" ->
           IF o.items = <<>> THEN Yielded(<< <<"{", "}">> >>)
           ELSE IterEncodeDict(o.items, 1, << <<"{">> >>)
      [] OTHER -> Raised(<<>>)

RECURSIVE Concat(_)
Concat(chunks) ==
    IF chunks = <<>> THEN <<>> ELSE Head(chunks) \o Concat(Tail(chunks))

-----------------------------------------------------------------------------
(* json.load: the decoder.  Positions are 1-based; end is the position     *)
(* after the decoded value.  The texts of the model hold integers only     *)
(* (no fraction, exponent, NaN or Infinity) and no \u escapes.             *)

DecodeError == [ok |-> FALSE, val |-> PyNone, end |-> 0]
Decoded(v, e) == [ok |-> TRUE, val |-> v, end |-> e]

\* s[i:i+1]: the character at i, or "" past the end
At(t, i) == IF i >= 1 /\ i <= Len(t) THEN t[i] ELSE ""

Whitespace == {" ", "\t", "\n", "\r"}

\* WHITESPACE.match(s, i).end()
RECURSIVE SkipWs(_, _)
SkipWs(t, i) == IF At(t, i) \in Whitespace THEN SkipWs(t, i + 1) ELSE i

\* s[i:i+len(word)] == word
IsAt(t, i, word) ==
    /\ i + Len(word) - 1 <= Len(t)
    /\ \A k \in 1..Len(word) : t[i + k - 1] = word[k]

IsDigit(c) == \E d \in 1..10 : Digits[d] = c
DigitValue(c) == (CHOOSE d \in 1..10 : Digits[d] = c) - 1

\* BACKSLASH: the character an escape letter stands for
Unescape(c) ==
    CASE c = "n" -> "\n"
      [] c = "t" -> "\t"
      [] c = "r" -> "\r"
      [] OTHER -> c

\* py_scanstring: i is the position after the opening quote, got the
\* characters decoded so far.
RECURSIVE ScanString(_, _, _)
ScanString(t, i, got) ==
    LET c == At(t, i)
    IN CASE c = "" -> DecodeError
         [] c = "\"" -> Decoded(PyStr(got), i + 1)
         [] c = "\\" ->
              IF At(t, i + 1) \in {"\"", "\\", "/", "n", "t", "r"}
              THEN ScanString(t, i + 2, Append(got, Unescape(At(t, i + 1))))
              ELSE DecodeError
         [] c \in {"\n", "\t", "\r"} -> DecodeError
         [] OTHER -> ScanString(t, i + 1, Append(got, c))

\* The digits [1-9]\d* matched from i on: the number read so far in n.
RECURSIVE ScanDigits(_, _, _)
ScanDigits(t, i, n) ==
    IF IsDigit(At(t, i)) THEN ScanDigits(t, i + 1, 10 * n + DigitValue(At(t, i)))
    ELSE [n |-> n, end |-> i]

\* NUMBER_RE.match: -?(0|[1-9]\d*)
ScanNumber(t, i) ==
    LET neg == At(t, i) = "-"
        j == IF neg THEN i + 1 ELSE i
    IN IF ~IsDigit(At(t, j)) THEN DecodeError
       ELSE LET m == IF At(t, j) = "0" THEN [n |-> 0, end |-> j + 1]
                     ELSE ScanDigits(t, j, 0)
            IN Decoded(PyInt(IF neg THEN 0 - m.n ELSE m.n), m.end)

\* dict(pairs): a repeated key keeps its place and takes the later value
RECURSIVE DictSet(_, _, _, _)
DictSet(kvs, i, key, v) ==
    IF i > Len(kvs) THEN kvs \o << key, v >>
    ELSE IF kvs[i] = key THEN [kvs EXCEPT ![i + 1] = v]
    ELSE DictSet(kvs, i + 2, key, v)

RECURSIVE ScanOnce(_, _)
RECURSIVE ParsePairs(_, _, _)
RECURSIVE ParseValues(_, _, _)

\* JSONObject's loop: i is the position after a key's opening quote
ParsePairs(t, i, kvs) ==
    LET key == ScanString(t, i, <<>>)
        colon == SkipWs(t, key.end)
        v == ScanOnce(t, SkipWs(t, colon + 1))
        next == SkipWs(t, v.end)
        quote == SkipWs(t, next + 1)
    IN IF ~key.ok \/ At(t, colon) # ":" THEN DecodeError
       ELSE IF ~v.ok THEN DecodeError
       ELSE IF At(t, next) = "}"
            THEN Decoded(PyDict(DictSet(kvs, 1, key.val, v.val)), next + 1)
       ELSE IF At(t, next) # "," \/ At(t, quote) # "\"" THEN DecodeError
       ELSE ParsePairs(t, quote + 1, DictSet(kvs, 1, key.val, v.val))

\* JSONObject: i is the position after "{"
JSONObject(t, i) ==
    LET j == SkipWs(t, i)
    IN IF At(t, j) = "}" THEN Decoded(PyDict(<<>>), j + 1)
       ELSE IF At(t, j) # "\"" THEN DecodeError
       ELSE ParsePairs(t, j + 1, <<>>)

\* Variant: a decoder that takes the end of the text for the end of an array.
RECURSIVE ParseValuesLenient(_, _, _)
ParseValuesLenient(t, i, xs) ==
    LET v == ScanOnce(t, i)
        next == SkipWs(t, v.end)
    IN IF ~v.ok THEN DecodeError
       ELSE IF At(t, next) = "]"
            THEN Decoded(PyList(Append(xs, v.val)), next + 1)
       ELSE IF At(t, next) = ""
            THEN Decoded(PyList(Append(xs, v.val)), next)
       ELSE IF At(t, next) # "," THEN DecodeError
       ELSE ParseValuesLenient(t, SkipWs(t, next + 1), Append(xs, v.val))

\* JSONArray's loop: i is the position of the next value
ParseValues(t, i, xs) ==
    LET v == ScanOnce(t, i)
        next == SkipWs(t, v.end)
    IN IF ~v.ok THEN DecodeError
       ELSE IF At(t, next) = "]"
            THEN Decoded(PyList(Append(xs, v.val)), next + 1)
       ELSE IF At(t, next) # "," THEN DecodeError
       ELSE ParseValues(t, SkipWs(t, next + 1), Append(xs, v.val))

\* JSONArray: i is the position after "["
JSONArray(t, i) ==
    LET j == SkipWs(t, i)
    IN IF At(t, j) = "]" THEN Decoded(PyList(<<>>), j + 1)
       ELSE ParseValues(t, j, <<>>)

\* _scan_once: the value that starts at i
ScanOnce(t, i) ==
    LET c == At(t, i)
    IN CASE c = "\"" -> ScanString(t, i + 1, <<>>)
         [] c = "{" -> JSONObject(t, i + 1)
         [] c = "[" -> JSONArray(t, i + 1)
         [] c = "n" /\ IsAt(t, i, <<"n", "u", "l", "l">>) ->
              Decoded(PyNone, i + 4)
         [] c = "t" /\ IsAt(t, i, <<"t", "r", "u", "e">>) ->
              Decoded(PyBool(TRUE), i + 4)
         [] c = "f" /\ IsAt(t, i, <<"f", "a", "l", "s", "e">>) ->
              Decoded(PyBool(FALSE), i + 5)
         [] OTHER -> ScanNumber(t, i)

\* Variant: raw_decode, which does not look at what follows the value.
DecodeLenient(t) == ScanOnce(t, SkipWs(t, 1))

\* JSONDecoder.decode: the whole text is one value between whitespace
Decode(t) ==
    LET r == ScanOnce(t, SkipWs(t, 1))
    IN IF ~r.ok THEN DecodeError
       ELSE IF SkipWs(t, r.end) # Len(t) + 1 THEN DecodeError
       ELSE Decoded(r.val, Len(t) + 1)

-----------------------------------------------------------------------------
(* The inputs: task lists passed to save, and texts another program may    *)
(* leave in the file.                                                      *)

TaskA == Item(PyInt(1), PyStr(<<"a">>), PyStr(<<"o">>))
\* A negative, two-digit id and a content that needs escaping.
TaskB == Item(PyInt(-20), PyStr(<<"\"", "\\", "\n">>), PyStr(<<"x">>))
\* A record whose content json cannot serialize.
TaskBad == Item(PyInt(2), PySet, PyStr(<<"o">>))

ValidTasks == {TaskA, TaskB}

\* The sequences of valid task records of length at most k
RECURSIVE ValidSeqs(_)
ValidSeqs(k) ==
    IF k = 0 THEN {<<>>}
    ELSE ValidSeqs(k - 1) \cup
         {Append(xs, t) : xs \in ValidSeqs(k - 1), t \in ValidTasks}

\* The lists passed to save, of length at most k: the valid ones, and the
\* ones that end in the record that cannot be serialized.
TodoLists(k) ==
    {PyList(xs) : xs \in ValidSeqs(k)} \cup
    (IF k = 0 THEN {}
     ELSE {PyList(Append(xs, TaskBad)) : xs \in ValidSeqs(k - 1)})

\* Texts that are not JSON: an empty file, a truncated array, a trailing
\* comma, a missing colon, an unterminated string, data after the value,
\* a misspelt constant.
CorruptTexts ==
    { <<>>,
      <<"[", "{">>,
      <<"[", "1", ",", "]">>,
      <<"{", "\"", "i", "d", "\"", " ", "1", "}">>,
      <<"\"", "a">>,
      <<"[", "]", " ", "]">>,
      <<"n", "u", "l">> }

\* JSON texts, as json.dump writes them, of values that are not lists of
\* task records: an object, a number, a string, null, a list of numbers.
WrongShapeTexts ==
    { <<"{", "\"", "i", "d", "\"", ":", " ", "1", "}">>,
      <<"7">>,
      <<"\"", "a", "\"">>,
      <<"n", "u", "l", "l">>,
      <<"[", "7", "]">> }

ForeignTexts == CorruptTexts \cup WrongShapeTexts

-----------------------------------------------------------------------------
(* State *)

VARIABLES
    file,         \* todo.json: [exists, mode, text]
    pcS,          \* save: "idle", or "dump" inside the with block
    saveArg,      \* save's todo_list, while save runs
    saveIdx,      \* how many chunks json.dump has written
    saveHandle,   \* whether save holds f open
    saveResult,   \* how the last save ended: "none", "ok" or "error"
    pcF,          \* fetch: "idle", or "load" inside the with block
    fetchHandle,  \* whether fetch holds f open
    fetchBuf,     \* what f.read() has read so far, while fetch runs
    fetchResult,  \* how the last fetch ended: [status, val, diag]
    prevFetch,    \* history: the result of the fetch before, no write between
    origin,       \* history: what left the file's content
    stored,       \* history: the list a completed save left in the file
    before,       \* history: stored, as the last save found it
    saveFault,    \* history: whether a failure occurred inside the last save
    raced         \* history: the save that ran during the last fetch

vars == << file, pcS, saveArg, saveIdx, saveHandle, saveResult,
           pcF, fetchHandle, fetchBuf, fetchResult,
           prevFetch, origin, stored, before, saveFault, raced >>

saveVars == << pcS, saveArg, saveIdx, saveHandle, saveResult, saveFault >>
fetchVars == << pcF, fetchHandle, fetchBuf, fetchResult, prevFetch >>

\* The file's mode: "rw", "ro" (read only) or "none" (no access).
NoFile == [exists |-> FALSE, mode |-> "rw", text |-> <<>>]

NoResult == [status |-> "none", val |-> EmptyList, diag |-> FALSE]
\* fetch returned v; diag tells whether print(ee) ran.
Returned(v, d) == [status |-> "returned", val |-> v, diag |-> d]
\* An exception left fetch.
Propagated == [status |-> "raised", val |-> EmptyList, diag |-> FALSE]

Unknown == [valid |-> FALSE, list |-> EmptyList]
Known(l) == [valid |-> TRUE, list |-> l]
\* After a failed save, only whether a list had been stored is kept.
Dropped(k) == [valid |-> k.valid, list |-> EmptyList]

\* No save ran during the fetch, or one did, that found in the file what
\* found tells.
NotRaced == [on |-> FALSE, found |-> Unknown]
Raced(found) == [on |-> TRUE, found |-> found]

Init ==
    /\ file = NoFile
    /\ pcS = "idle"
    /\ saveArg = EmptyList
    /\ saveIdx = 0
    /\ saveHandle = FALSE
    /\ saveResult = "none"
    /\ pcF = "idle"
    /\ fetchHandle = FALSE
    /\ fetchBuf = <<>>
    /\ fetchResult = NoResult
    /\ prevFetch = NoResult
    /\ origin = "absent"
    /\ stored = Unknown
    /\ before = Unknown
    /\ saveFault = FALSE
    /\ raced = NotRaced

-----------------------------------------------------------------------------
(* save(todo_list) *)

\* open(file_name, 'w') creates the file, or needs one it may write.
CanWrite == ~file.exists \/ file.mode = "rw"

\* Variant: open(file_name, 'a'), which keeps what the file holds.
NotTruncated == [exists |-> TRUE, mode |-> "rw", text |-> file.text]

\* open(file_name, 'w'): the file is created, or emptied.
Truncated == [exists |-> TRUE, mode |-> "rw", text |-> <<>>]

\* save is called and opens the file: the open raises and the exception
\* leaves save, or the file is truncated and f is held.
SaveOpen(l) ==
    /\ pcS = "idle"
    /\ saveIdx' = 0
    /\ before' = stored
    /\ fetchResult' = NoResult
    /\ prevFetch' = NoResult
    /\ raced' = IF pcF = "idle" THEN NotRaced ELSE Raced(stored)
    /\ IF CanWrite
       THEN /\ file' = Truncated
            /\ pcS' = "dump"
            /\ saveArg' = l
            /\ saveHandle' = TRUE
            /\ saveResult' = "none"
            /\ saveFault' = FALSE
            /\ origin' = "torn"
            /\ stored' = Unknown
       ELSE /\ pcS' = "idle"
            /\ saveArg' = EmptyList
            /\ saveHandle' = FALSE
            /\ saveResult' = "error"
            /\ saveFault' = TRUE
            /\ UNCHANGED << file, origin, stored >>
    /\ UNCHANGED << pcF, fetchHandle, fetchBuf >>

\* The chunks json.dump writes, and whether the encoder then raises.
Encoding == IterEncode(saveArg)

\* for chunk in iterable: fp.write(chunk).  The write appends the chunk,
\* or fails (disk full) after cut of its characters: the with block closes
\* f and the exception leaves save.
SaveWrite ==
    /\ pcS = "dump"
    /\ saveIdx < Len(Encoding.chunks)
    /\ LET chunk == Encoding.chunks[saveIdx + 1]
       IN \E cut \in (0..MaxCut) \cup {Len(chunk)} :
            /\ cut <= Len(chunk)
            /\ file' = [file EXCEPT !.text = @ \o SubSeq(chunk, 1, cut)]
            /\ IF cut = Len(chunk)
               THEN /\ saveIdx' = saveIdx + 1
                    /\ UNCHANGED << pcS, saveArg, saveHandle, saveResult,
                                    saveFault, before >>
               ELSE /\ pcS' = "idle"
                    /\ saveArg' = EmptyList
                    /\ saveIdx' = 0
                    /\ saveHandle' = FALSE
                    /\ saveResult' = "error"
                    /\ saveFault' = TRUE
                    /\ before' = Dropped(before)
    /\ UNCHANGED << fetchVars, origin, stored, raced >>

\* Variant: save catches the TypeError and returns normally.
SaveRaiseSwallowed ==
    /\ pcS = "dump"
    /\ saveIdx = Len(Encoding.chunks)
    /\ Encoding.raised
    /\ pcS' = "idle"
    /\ saveArg' = EmptyList
    /\ saveIdx' = 0
    /\ saveHandle' = FALSE
    /\ saveResult' = "ok"
    /\ saveFault' = TRUE
    /\ before' = Dropped(before)
    /\ UNCHANGED << file, fetchVars, origin, stored, raced >>

\* The encoder meets a value it cannot serialize: TypeError. The with block
\* closes f and the exception leaves save.
SaveRaise ==
    /\ pcS = "dump"
    /\ saveIdx = Len(Encoding.chunks)
    /\ Encoding.raised
    /\ pcS' = "idle"
    /\ saveArg' = EmptyList
    /\ saveIdx' = 0
    /\ saveHandle' = FALSE
    /\ saveResult' = "error"
    /\ saveFault' = TRUE
    /\ before' = Dropped(before)
    /\ UNCHANGED << file, fetchVars, origin, stored, raced >>

\* json.dump has written every chunk: the with block closes f, save returns.
SaveReturn ==
    /\ pcS = "dump"
    /\ saveIdx = Len(Encoding.chunks)
    /\ ~Encoding.raised
    /\ pcS' = "idle"
    /\ saveArg' = EmptyList
    /\ saveIdx' = 0
    /\ saveHandle' = FALSE
    /\ saveResult' = "ok"
    /\ origin' = "saved"
    /\ stored' = Known(saveArg)
    /\ UNCHANGED << file, saveFault, fetchVars, before, raced >>

-----------------------------------------------------------------------------
(* fetch() *)

\* open(file_name, 'r') needs a file it may read.
CanRead == file.exists /\ file.mode # "none"

\* Variant: no except clause, the exception leaves fetch.
Uncaught == Propagated

\* except Exception as ee: print(ee), then return []
Caught == Returned(EmptyList, TRUE)

\* Variant: a fetch that takes a decoded value that is no list for a failure.
LoadResultChecked(t) ==
    IF Decode(t).ok /\ Decode(t).val.kind = "list"
    THEN Returned(Decode(t).val, FALSE)
    ELSE Returned(EmptyList, TRUE)

\* json.load(f.read()) and what fetch returns for it: the decoded value,
\* whatever it is, or [] when the decoder raises.
LoadResult(t) ==
    IF Decode(t).ok THEN Returned(Decode(t).val, FALSE) ELSE Caught

\* Variant: the exception of a failed open leaves fetch.
FetchOpenUncaught ==
    /\ pcF = "idle"
    /\ prevFetch' = IF pcS = "idle" THEN fetchResult ELSE NoResult
    /\ fetchBuf' = <<>>
    /\ raced' = IF pcS = "idle" THEN NotRaced ELSE Raced(before)
    /\ IF file.exists /\ file.mode # "none"
       THEN /\ pcF' = "load"
            /\ fetchHandle' = TRUE
            /\ fetchResult' = NoResult
       ELSE /\ pcF' = "idle"
            /\ fetchHandle' = FALSE
            /\ fetchResult' = Propagated
    /\ UNCHANGED << file, saveVars, origin, stored, before >>

\* Variant: open(file_name, 'a+'), which creates the file when it is missing.
FetchOpenCreates ==
    /\ pcF = "idle"
    /\ prevFetch' = IF pcS = "idle" THEN fetchResult ELSE NoResult
    /\ fetchBuf' = <<>>
    /\ raced' = IF pcS = "idle" THEN NotRaced ELSE Raced(before)
    /\ IF ~file.exists \/ file.mode = "rw"
       THEN /\ pcF' = "load"
            /\ fetchHandle' = TRUE
            /\ fetchResult' = NoResult
            /\ file' = [file EXCEPT !.exists = TRUE]
       ELSE /\ pcF' = "idle"
            /\ fetchHandle' = FALSE
            /\ fetchResult' = Returned(EmptyList, TRUE)
            /\ file' = file
    /\ UNCHANGED << saveVars, origin, stored, before >>

\* fetch is called and opens the file: the open raises, the exception is
\* caught and fetch returns [], or f is held.
FetchOpen ==
    /\ pcF = "idle"
    /\ prevFetch' = IF pcS = "idle" THEN fetchResult ELSE NoResult
    /\ fetchBuf' = <<>>
    /\ raced' = IF pcS = "idle" THEN NotRaced ELSE Raced(before)
    /\ IF CanRead
       THEN /\ pcF' = "load"
            /\ fetchHandle' = TRUE
            /\ fetchResult' = NoResult
       ELSE /\ pcF' = "idle"
            /\ fetchHandle' = FALSE
            /\ fetchResult' = Caught
    /\ UNCHANGED << file, saveVars, origin, stored, before >>

\* f.read() reads on while the file holds more than it has read.
FetchRead ==
    /\ pcF = "load"
    /\ Len(file.text) > Len(fetchBuf)
    /\ fetchBuf' = fetchBuf \o SubSeq(file.text, Len(fetchBuf) + 1, Len(file.text))
    /\ UNCHANGED << file, saveVars, pcF, fetchHandle, fetchResult, prevFetch,
                    origin, stored, before, raced >>

\* Variant: no with block, f.close() follows json.load and is skipped when
\* the decoder raises.
FetchReturnLeaks ==
    /\ pcF = "load"
    /\ Len(file.text) <= Len(fetchBuf)
    /\ pcF' = "idle"
    /\ fetchHandle' = ~Decode(fetchBuf).ok
    /\ fetchBuf' = <<>>
    /\ fetchResult' = LoadResult(fetchBuf)
    /\ UNCHANGED << file, saveVars, prevFetch, origin, stored, before,
                    raced >>

\* f.read() meets the end of the file and json.load decodes what was read:
\* the with block closes f and fetch returns.
FetchReturn ==
    /\ pcF = "load"
    /\ Len(file.text) <= Len(fetchBuf)
    /\ pcF' = "idle"
    /\ fetchHandle' = FALSE
    /\ fetchBuf' = <<>>
    /\ fetchResult' = LoadResult(fetchBuf)
    /\ UNCHANGED << file, saveVars, prevFetch, origin, stored, before,
                    raced >>

-----------------------------------------------------------------------------
(* The file's other users, between calls of the store *)

Quiet == pcS = "idle" /\ pcF = "idle"

\* What fetch last returned is no longer about the file.
ForgetFetch ==
    /\ fetchResult' = NoResult
    /\ prevFetch' = NoResult
    /\ raced' = NotRaced
    /\ UNCHANGED << pcS, saveArg, saveIdx, saveHandle, pcF, fetchHandle,
                    fetchBuf >>

\* Nor is what save last did.
ForgetSave ==
    /\ saveResult' = "none"
    /\ saveFault' = FALSE
    /\ stored' = Unknown
    /\ before' = Unknown

\* The file is deleted.
Delete ==
    /\ Quiet
    /\ file.exists
    /\ file' = NoFile
    /\ origin' = "absent"
    /\ ForgetFetch
    /\ ForgetSave

\* Another program writes the file.
Replace(t) ==
    /\ Quiet
    /\ file' = [exists |-> TRUE, mode |-> "rw", text |-> t]
    /\ origin' = "foreign"
    /\ ForgetFetch
    /\ ForgetSave

\* The file's permissions are changed.
Chmod(m) ==
    /\ Quiet
    /\ file.exists
    /\ file.mode # m
    /\ file' = [file EXCEPT !.mode = m]
    /\ ForgetFetch
    /\ UNCHANGED << saveResult, saveFault, origin, stored, before >>

-----------------------------------------------------------------------------
(* Specifications *)

\* One caller (spec section 5): a call starts when no call is in progress.
Next ==
    \/ \E l \in TodoLists(MaxLen) : pcF = "idle" /\ SaveOpen(l)
    \/ SaveWrite
    \/ SaveRaise
    \/ SaveReturn
    \/ pcS = "idle" /\ FetchOpen
    \/ FetchRead
    \/ FetchReturn
    \/ Delete
    \/ \E t \in ForeignTexts : Replace(t)
    \/ \E m \in {"rw", "ro", "none"} : Chmod(m)

Spec == Init /\ [][Next]_vars

\* Two callers of one file the store alone writes: a fetch and a save of a
\* valid list run at once, at most one save per fetch.
NextRace ==
    \/ \E xs \in ValidSeqs(MaxRaceLen) :
          (pcF = "idle" \/ ~raced.on) /\ SaveOpen(PyList(xs))
    \/ SaveWrite
    \/ SaveReturn
    \/ FetchOpen
    \/ FetchRead
    \/ FetchReturn

SpecRace == Init /\ [][NextRace]_vars

-----------------------------------------------------------------------------
(* Properties *)

\* fetch has ended and its result is still the caller's latest.
Fetched == pcF = "idle" /\ fetchResult.status # "none"

\* The text json.dump writes for l.
TextOf(l) == Concat(IterEncode(l).chunks)

\* The file holds all of what the last completed save wrote, and may be read.
Intact == origin = "saved" /\ file.exists /\ file.mode # "none"

\* C1 (round trip): a fetch of the file a completed save(L) left, with no
\* other write in between, returns normally a list as long as L with L's
\* record at every position.
RoundTrip ==
    (Fetched /\ Intact) =>
        /\ fetchResult.status = "returned"
        /\ fetchResult.val.kind = "list"
        /\ Len(fetchResult.val.items) = Len(stored.list.items)
        /\ \A i \in 1..Len(stored.list.items) :
              fetchResult.val.items[i] = stored.list.items[i]

\* A fetch returned the saved two records with the same id, in order.
RoundTripWitness ==
    /\ Fetched
    /\ Intact
    /\ stored.list = PyList(<<TaskB, TaskB>>)
    /\ fetchResult = Returned(PyList(<<TaskB, TaskB>>), FALSE)

\* C2 (overwrite): after save(L1), ..., save(Ln), each completed, fetch
\* returns exactly Ln: every record it returns is a record of Ln, whatever
\* the save before had stored.
Overwrite ==
    (Fetched /\ Intact /\ before.valid) =>
        /\ fetchResult = Returned(stored.list, FALSE)
        /\ file.text = TextOf(stored.list)
        /\ \A i \in 1..Len(fetchResult.val.items) :
              \E j \in 1..Len(stored.list.items) :
                 fetchResult.val.items[i] = stored.list.items[j]

\* A two-record list was stored, then a shorter one with another record,
\* and a fetch returned the shorter one.
OverwriteWitness ==
    /\ Fetched
    /\ Intact
    /\ before = Known(PyList(<<TaskA, TaskA>>))
    /\ stored = Known(PyList(<<TaskB>>))
    /\ fetchResult.val = PyList(<<TaskB>>)

\* C3 (no file): when the file does not exist, fetch returns the empty list
\* and no exception leaves it.
EmptyInitialState ==
    (Fetched /\ ~file.exists) => fetchResult = Returned(EmptyList, TRUE)

\* A fetch has ended on a file that does not exist.
EmptyInitialStateWitness ==
    Fetched /\ ~file.exists /\ fetchResult.val = EmptyList

\* The file holds text that is not JSON: another program's, or what a failed
\* save left.
Corrupt ==
    /\ file.exists
    /\ file.mode # "none"
    /\ \/ origin = "foreign" /\ file.text \in CorruptTexts
       \/ origin = "torn" /\ pcS = "idle"

\* C4 (corrupt file): when the file's content is not valid JSON (malformed,
\* truncated or empty), fetch returns the empty list and the decoder's
\* exception does not leave it.
CorruptFileTolerance ==
    (Fetched /\ Corrupt) => fetchResult = Returned(EmptyList, TRUE)

\* A fetch has ended on a file that holds a trailing comma.
CorruptFileWitness ==
    /\ Fetched
    /\ Corrupt
    /\ file.text = <<"[", "1", ",", "]">>
    /\ fetchResult = Returned(EmptyList, TRUE)

\* The file holds JSON that is not a list of task records.
WrongShape ==
    /\ file.exists
    /\ file.mode # "none"
    /\ origin = "foreign"
    /\ file.text \in WrongShapeTexts

\* C5 as claimed (wrong shape): when the file holds well-formed JSON that is
\* not an array of task records, fetch returns the empty list.
WrongShapeYieldsEmpty ==
    (Fetched /\ WrongShape) => fetchResult = Returned(EmptyList, TRUE)

\* C5 as amended: fetch returns the decoded value as it is, without a
\* diagnostic: the value whose JSON text is the file's, which is not the
\* empty list and is no list at all unless the file holds an array.
WrongShapeReturnedAsIs ==
    (Fetched /\ WrongShape) =>
        /\ fetchResult.status = "returned"
        /\ ~fetchResult.diag
        /\ fetchResult.val # EmptyList
        /\ TextOf(fetchResult.val) = file.text
        /\ (fetchResult.val.kind = "list") = (Head(file.text) = "[")

\* A fetch returned a dict.
WrongShapeWitness ==
    /\ Fetched
    /\ WrongShape
    /\ fetchResult.val = PyDict(<< PyStr(<<"i", "d">>), PyInt(1) >>)

\* C6 (save propagates failure): a failure at open, in the encoder or in a
\* write leaves save as an error; a save that returns normally has written
\* the whole text of its list.
SaveFailurePropagates ==
    /\ (pcS = "idle" /\ saveFault) => saveResult = "error"
    /\ saveResult = "ok" =>
          /\ ~saveFault
          /\ stored.valid
          /\ file.exists
          /\ file.text = TextOf(stored.list)

\* A save failed after it had written part of the text.
SaveFailureWitness ==
    /\ pcS = "idle"
    /\ saveFault
    /\ saveResult = "error"
    /\ origin = "torn"
    /\ Len(file.text) > 1

\* C7 (handles): when no save is in progress save holds no handle, and when
\* no fetch is in progress fetch holds none.
HandleRelease ==
    /\ pcS = "idle" => ~saveHandle
    /\ pcF = "idle" => ~fetchHandle

\* No call is in progress, after a save that failed inside the with block
\* and a fetch whose decoding failed.
HandleReleaseWitness ==
    /\ Quiet
    /\ ~saveHandle
    /\ ~fetchHandle
    /\ saveResult = "error"
    /\ origin = "torn"
    /\ file.mode = "rw"
    /\ Len(file.text) > 1
    /\ fetchResult = Returned(EmptyList, TRUE)

\* C8 (failed save): after a save failed, the next fetch returns the list of
\* the last completed save (the file was not opened) or the empty list (it
\* was truncated): never part of the failed save's list.
FailedSaveNoPartialList ==
    (Fetched /\ saveResult = "error" /\ origin \in {"saved", "torn"}) =>
        /\ fetchResult.status = "returned"
        /\ \/ fetchResult.val = EmptyList
           \/ origin = "saved" /\ fetchResult.val = stored.list
        /\ origin = "torn" => fetchResult.val = EmptyList

\* A list had been stored, a later save failed after it had written part of
\* its text, and the fetch after it returned the empty list.
FailedSaveWitness ==
    /\ Fetched
    /\ saveResult = "error"
    /\ origin = "torn"
    /\ before.valid
    /\ file.mode = "rw"
    /\ Len(file.text) > 1
    /\ fetchResult = Returned(EmptyList, TRUE)

\* A step of fetch, under Spec.
FetchStep ==
    \/ pcF # "idle"
    \/ pcF' # "idle"
    \/ fetchResult'.status # "none" /\ fetchResult' # fetchResult
    \/ prevFetch'.status # "none" /\ prevFetch' # prevFetch

\* C9 (fetch only reads): no step of fetch changes whether the file exists,
\* its mode or its content, and a fetch that follows a fetch, with no write
\* in between, returns what that one returned.
FetchIsReadOnly ==
    /\ [][FetchStep => file' = file]_vars
    /\ [](Fetched /\ prevFetch.status # "none" => fetchResult = prevFetch)

\* Two fetches in a row have ended on a corrupt file, which is as it was.
FetchIsReadOnlyWitness ==
    /\ Fetched
    /\ prevFetch = Returned(EmptyList, TRUE)
    /\ fetchResult = prevFetch
    /\ file.text = <<"[", "{">>

\* What a fetch that ran during a save may return besides the list found
\* before and the empty list: the list being saved.
BeingSaved ==
    IF pcS = "dump" THEN {saveArg}
    ELSE IF origin = "saved" THEN {stored.list} ELSE {}

\* C10 (fetch racing one save): a fetch that ran while one save(L) was in
\* progress, on a file that held the result of a completed save(P), returns
\* P, L or the empty list, and no exception leaves it.
RaceOutcomes ==
    (Fetched /\ raced.on /\ raced.found.valid) =>
        /\ fetchResult.status = "returned"
        /\ fetchResult.val \in {raced.found.list, EmptyList} \cup BeingSaved

\* With P and L not empty, a fetch during save(L) returned the empty list.
RaceEmptyWitness ==
    /\ Fetched
    /\ raced.on
    /\ raced.found.valid
    /\ raced.found.list # EmptyList
    /\ pcS = "dump"
    /\ saveArg # EmptyList
    /\ saveArg # raced.found.list
    /\ fetchResult = Returned(EmptyList, TRUE)

=============================================================================
